---- MODULE Spec2Model ----
(***************************************************************************)
(* Real-time session orchestration layer of the voice assistant server:    *)
(*   GeminiLiveService  (src/unnamed/part_001)  live response coordinator  *)
(*   SessionManager     (src/unnamed/part_000)  session registry, history, *)
(*                                              recording capture          *)
(*   CacheService       (src/server/services/GeminiService.js) the Redis   *)
(*                                              backed durable store       *)
(* Every JavaScript Map is a TLA+ function whose DOMAIN is the key set.    *)
(* An async method is one action up to its long-latency await:             *)
(* geminiService.getResponse in sendAudioChunk is split into the start of  *)
(* the call and its return (value or exception).  SessionManager methods   *)
(* are one action each, except in SpecInterleaved, where joinSession and   *)
(* leaveSession are split at their awaits of the Redis commands.           *)
(***************************************************************************)
EXTENDS Integers, Sequences, FiniteSets, TLC

VARIABLES
  sessions,          \* GeminiLiveService.sessions : Map sessionId -> LiveState
  calls,             \* sendAudioChunk invocations that reached getResponse, in start order
  responses,         \* every 'response' event emitted so far, in emission order
  emitted,           \* the events emitted by the latest step, in order
  lastOp,            \* the latest operation: name, session id, call, outcome
  connected,         \* CacheService.connected
  clock,             \* Date.now()
  uuidCount,         \* number of uuidv4() session ids handed out
  entryCount,        \* number of uuidv4() history-entry ids handed out
  redisSessions,     \* Redis keys session:<id>   -> stored session
  redisHistory,      \* Redis lists history:<id>  -> entries, head first
  redisRecordings,   \* Redis keys recording:<id> -> stored recording
  recordingCount,    \* number of uuidv4() recording ids handed out
  activeSessions,    \* SessionManager.activeSessions
  shared,            \* sets of activeSessions keys that hold one and the same object
  recordingSessions, \* SessionManager.recordingSessions
  appended,          \* per history key, every entry Redis accepted, oldest first
  result,            \* the value returned by the latest SessionManager call
  sockets,           \* per socket of index.js: connected, its room, its currentSession
  inFlight           \* per participant: the joinSession / leaveSession call it is inside

liveVars == <<sessions, calls, responses, emitted>>
registryVars == <<connected, clock, uuidCount, entryCount, redisSessions, redisHistory,
                  redisRecordings, recordingCount, activeSessions, shared, recordingSessions, appended,
                  result>>
vars == <<sessions, calls, responses, emitted, lastOp, connected, clock, uuidCount,
          entryCount, redisSessions, redisHistory, redisRecordings, recordingCount,
          activeSessions, shared, recordingSessions, appended, result, sockets,
          inFlight>>

-----------------------------------------------------------------------------
(* Bounds of the model *)

\* sendAudioChunk invocations that reach getResponse in one behaviour
MaxCalls == 2

\* session ids the transport passes to the live service
LiveIds == {"s1", "s2"}

\* the session ids uuidv4() hands out in one behaviour, in order
Uuids == <<"u1", "u2">>

\* the recording ids uuidv4() hands out in one behaviour, in order
RecordingIds == <<"r1">>

\* the largest value Date.now() reaches
MaxTime == 1

\* history entries appended in one behaviour of the registry
MaxEntries == 2

\* history entries appended in one behaviour of the history ledger
MaxLongHistory == 101

\* raw data points accumulated by one recording
MaxData == 1

\* history entries appended in one behaviour of a session that is recorded
MaxSnapshotHistory == 21

\* session ids a client asks to join that no createSession handed out
ClientIds == {"s1"}

\* the key an absent (undefined) session id becomes, in the template literal
\* of the Redis key and in the in-memory map
AbsentId == "undefined"

\* socket ids
Participants == {"p1", "p2"}

\* the socket id of the one participant of the sessions that are recorded
Host == "p1"

\* the participant id the inactivity sweep leaves with
SystemParticipant == "system"

\* the limits getSessionHistory is asked for in the history ledger
HistoryLimits == {1, 2, 50, 100, 150}

-----------------------------------------------------------------------------
(* Map helpers: JavaScript Map.set / Map.delete *)

MapSet(m, k, v) == [x \in (DOMAIN m) \cup {k} |-> IF x = k THEN v ELSE m[x]]

MapDelete(m, k) == [x \in (DOMAIN m) \ {k} |-> m[x]]

EmptyMap == [x \in {} |-> 0]

-----------------------------------------------------------------------------
(* GeminiLiveService *)

\* index.js passes one fixed instruction; the service never reads it back
SystemInstruction == "rev"

\* a LiveState that is created busy
NewLiveStateResponding(sessionId, systemInstruction) ==
  [id |-> sessionId, systemInstruction |-> systemInstruction, responding |-> TRUE]

\* the LiveState openSession stores: idle
NewLiveState(sessionId, systemInstruction) ==
  [id |-> sessionId, systemInstruction |-> systemInstruction, responding |-> FALSE]

Event(type, sessionId) == [type |-> type, sessionId |-> sessionId]

Op(name, sid, call, threw) == [op |-> name, sid |-> sid, call |-> call, threw |-> threw]

\* the calls of session sid whose getResponse has not returned yet
Outstanding(sid) == {c \in 1..Len(calls) : calls[c].sid = sid /\ calls[c].outcome = "pending"}

\* bookkeeping on the outstanding calls of sid: an interrupt or a close happened meanwhile
Mark(sid, field) ==
  [c \in 1..Len(calls) |->
     IF calls[c].sid = sid /\ calls[c].outcome = "pending"
       THEN [calls[c] EXCEPT ![field] = TRUE]
       ELSE calls[c]]

OpenSession(sessionId) ==
  /\ sessions' = MapSet(sessions, sessionId, NewLiveState(sessionId, SystemInstruction))
  /\ emitted' = <<Event("session-opened", sessionId)>>
  /\ lastOp' = Op("openSession", sessionId, 0, FALSE)
  /\ UNCHANGED <<calls, responses>>

CloseSession(sessionId) ==
  /\ sessions' = MapDelete(sessions, sessionId)
  /\ emitted' = <<Event("session-closed", sessionId)>>
  /\ calls' = Mark(sessionId, "closed")
  /\ lastOp' = Op("closeSession", sessionId, 0, FALSE)
  /\ UNCHANGED responses

\* an interrupt that announces itself for a session without LiveState too
InterruptAlwaysAnnounced(sessionId) ==
  /\ sessions' = IF sessionId \in DOMAIN sessions
                   THEN [sessions EXCEPT ![sessionId].responding = FALSE]
                   ELSE sessions
  /\ emitted' = <<Event("interrupted", sessionId)>>
  /\ calls' = Mark(sessionId, "interrupted")
  /\ lastOp' = Op("interrupt", sessionId, 0, FALSE)
  /\ UNCHANGED responses

Interrupt(sessionId) ==
  /\ IF sessionId \in DOMAIN sessions
       THEN /\ sessions' = [sessions EXCEPT ![sessionId].responding = FALSE]
            /\ emitted' = <<Event("interrupted", sessionId)>>
       ELSE /\ sessions' = sessions
            /\ emitted' = <<>>
  /\ calls' = Mark(sessionId, "interrupted")
  /\ lastOp' = Op("interrupt", sessionId, 0, FALSE)
  /\ UNCHANGED responses

\* sendAudioChunk without its responding guard: only an unknown session is dropped
DroppedOnlyWhenUnknown(sid) == sid \notin DOMAIN sessions

\* the two early returns of sendAudioChunk: no LiveState, or a cycle in flight
Dropped(sid) == sid \notin DOMAIN sessions \/ sessions[sid].responding

NewCall(sid) ==
  [sid |-> sid, outcome |-> "pending", interrupted |-> FALSE, closed |-> FALSE]

\* sendAudioChunk up to its await of getResponse
SendAudioChunk(sid) ==
  IF Dropped(sid)
    THEN /\ lastOp' = Op("sendAudioChunk", sid, 0, FALSE)
         /\ emitted' = <<>>
         /\ UNCHANGED <<sessions, calls, responses>>
    ELSE /\ Len(calls) < MaxCalls
         /\ sessions' = [sessions EXCEPT ![sid].responding = TRUE]
         /\ calls' = Append(calls, NewCall(sid))
         /\ lastOp' = Op("sendAudioChunk", sid, Len(calls) + 1, FALSE)
         /\ emitted' = <<>>
         /\ UNCHANGED responses

\* sendAudioChunk resetting the flag on the success path only, with no finally block
FinallyKeepsFlag(m, sid) == m

\* the finally block of sendAudioChunk
Finally(m, sid) ==
  IF sid \in DOMAIN m THEN [m EXCEPT ![sid].responding = FALSE] ELSE m

\* a check after the await that also asks for the responding flag to be set
StillOpenAndResponding(sid) == sid \in DOMAIN sessions /\ sessions[sid].responding

\* the session-closed check after the await: TRUE when the result is emitted
StillOpen(sid) == sid \in DOMAIN sessions

\* getResponse returned a value: the rest of sendAudioChunk
GetResponseReturns(c) ==
  /\ c \in 1..Len(calls)
  /\ calls[c].outcome = "pending"
  /\ LET sid == calls[c].sid IN
     /\ IF StillOpen(sid)
          THEN /\ emitted' = <<Event("response", sid)>>
               /\ responses' = Append(responses, [sessionId |-> sid, call |-> c])
               /\ calls' = [calls EXCEPT ![c].outcome = "emitted"]
          ELSE /\ emitted' = <<>>
               /\ responses' = responses
               /\ calls' = [calls EXCEPT ![c].outcome = "discarded"]
     /\ sessions' = Finally(sessions, sid)
     /\ lastOp' = Op("getResponse.return", sid, c, FALSE)

\* getResponse threw: sendAudioChunk runs its finally block and rethrows
GetResponseFails(c) ==
  /\ c \in 1..Len(calls)
  /\ calls[c].outcome = "pending"
  /\ LET sid == calls[c].sid IN
     /\ emitted' = <<>>
     /\ responses' = responses
     /\ calls' = [calls EXCEPT ![c].outcome = "failed"]
     /\ sessions' = Finally(sessions, sid)
     /\ lastOp' = Op("getResponse.throw", sid, c, TRUE)

-----------------------------------------------------------------------------
(* JavaScript values *)

\* an optional value: <<>> is undefined / null, <<v>> is v
None == <<>>

Some(v) == <<v>>

\* a || b for an optional string a
OrElse(a, b) == IF a # None /\ a[1] # "" THEN a[1] ELSE b

\* a || b for an optional boolean a
OrElseFlag(a, b) == IF a # None /\ a[1] THEN a[1] ELSE b

Range(seq) == {seq[i] : i \in 1..Len(seq)}

\* Array.prototype.filter(x => x !== v)
RECURSIVE Without(_, _)
Without(seq, v) ==
  IF seq = <<>> THEN <<>>
  ELSE IF Head(seq) = v THEN Without(Tail(seq), v)
  ELSE <<Head(seq)>> \o Without(Tail(seq), v)

\* Array.prototype.slice(start) for an integer start
Slice(seq, start) ==
  LET from == IF start < 0
                THEN (IF Len(seq) + start < 0 THEN 0 ELSE Len(seq) + start)
                ELSE (IF start > Len(seq) THEN Len(seq) ELSE start)
  IN SubSeq(seq, from + 1, Len(seq))

\* the value a SessionManager call hands its caller
Returned(kind, value) == [kind |-> kind, value |-> value]

\* the latest SessionManager call
Did(name, sid, arg, threw) == [op |-> name, sid |-> sid, arg |-> arg, threw |-> threw]

\* uuidv4(): the n-th identifier handed out
Uuid(n) == Uuids[n]

\* the ids callers pass: the client's own and the first one handed out
SessionIds == ClientIds \cup {Uuid(1)}

\* uuidv4() for a recording: the n-th identifier handed out
RecordingId(n) == RecordingIds[n]

\* a - b for a number a and an optional number b; NaN (and the null that
\* JSON.stringify makes of NaN) is <<>>
Minus(a, b) == IF b = None THEN None ELSE Some(a - b[1])

\* a || [] for an optional array a
OrEmpty(a) == IF a = None THEN <<>> ELSE a[1]

-----------------------------------------------------------------------------
(* CacheService: every method answers null / false / [] when not connected.  *)
(* JSON.stringify / JSON.parse keep numbers, strings, booleans and arrays    *)
(* and drop undefined fields (None here); what the round trip changes is     *)
(* identity: a value read from Redis is a fresh object, shared with nothing. *)

CacheGetSession(sessionId) ==
  IF connected /\ sessionId \in DOMAIN redisSessions
    THEN Some(redisSessions[sessionId])
    ELSE None

CacheSetSession(store, sessionId, sessionData) ==
  IF connected THEN MapSet(store, sessionId, sessionData) ELSE store

CacheDeleteSession(store, sessionId) ==
  IF connected THEN MapDelete(store, sessionId) ELSE store

\* LRANGE key start stop with 0 <= start and stop = -1 or 0 <= stop
LRange(list, start, stop) ==
  LET last == IF stop < 0 THEN Len(list) + stop + 1
              ELSE IF stop + 1 > Len(list) THEN Len(list) ELSE stop + 1
  IN SubSeq(list, start + 1, last)

\* the last index addToSessionHistory keeps
HistoryTrimStop == 99

\* LPUSH then LTRIM 0 100: a trim that is off by one
PushedAndTrimmedOffByOne(list, entry) == LRange(<<entry>> \o list, 0, HistoryTrimStop + 1)

\* LPUSH then LTRIM 0 99 on the list of one history key
PushedAndTrimmed(list, entry) == LRange(<<entry>> \o list, 0, HistoryTrimStop)

CacheGetSessionHistory(sessionId) ==
  IF connected /\ sessionId \in DOMAIN redisHistory
    THEN LRange(redisHistory[sessionId], 0, -1)
    ELSE <<>>

StoredHistory(h, sessionId) == IF sessionId \in DOMAIN h THEN h[sessionId] ELSE <<>>

CacheAddToSessionHistory(h, sessionId, entry) ==
  IF connected
    THEN MapSet(h, sessionId, PushedAndTrimmed(StoredHistory(h, sessionId), entry))
    ELSE h

\* the Redis client loses / regains its connection
Disconnect ==
  /\ connected
  /\ connected' = FALSE
  /\ lastOp' = Did("redis.end", "", 0, FALSE)
  /\ UNCHANGED <<clock, uuidCount, entryCount, redisSessions, redisHistory, redisRecordings, recordingCount,
                 activeSessions, shared, recordingSessions, appended, result>>

Reconnect ==
  /\ ~connected
  /\ connected' = TRUE
  /\ lastOp' = Did("redis.connect", "", 0, FALSE)
  /\ UNCHANGED <<clock, uuidCount, entryCount, redisSessions, redisHistory, redisRecordings, recordingCount,
                 activeSessions, shared, recordingSessions, appended, result>>

\* time passes
Tick ==
  /\ clock < MaxTime
  /\ clock' = clock + 1
  /\ lastOp' = Did("tick", "", 0, FALSE)
  /\ UNCHANGED <<connected, uuidCount, entryCount, redisSessions, redisHistory,
                 redisRecordings, recordingCount, activeSessions, shared, recordingSessions, appended, result>>

-----------------------------------------------------------------------------
(* SessionManager *)

DefaultLanguage == "en"

DefaultVoice == "male"

NoOptions ==
  [language |-> None, voice |-> None, autoTranslate |-> None, voiceEnabled |-> None,
   subtitleEnabled |-> None]

\* the options a caller passes
OptionChoices ==
  {NoOptions,
   [language |-> Some("hi"), voice |-> Some("female"), autoTranslate |-> Some(TRUE),
    voiceEnabled |-> Some(FALSE), subtitleEnabled |-> Some(FALSE)]}

NewSession(sessionId, options, now) ==
  [id |-> sessionId,
   createdAt |-> now,
   lastActivity |-> now,
   participants |-> <<>>,
   language |-> OrElse(options.language, DefaultLanguage),
   voice |-> OrElse(options.voice, DefaultVoice),
   history |-> <<>>,
   isRecording |-> FALSE,
   recordingData |-> <<>>,
   settings |-> [autoTranslate |-> OrElseFlag(options.autoTranslate, FALSE),
                 voiceEnabled |-> OrElseFlag(options.voiceEnabled, TRUE),
                 subtitleEnabled |-> OrElseFlag(options.subtitleEnabled, TRUE)],
   recordingStartTime |-> None,
   recordingEndTime |-> None,
   recordingDuration |-> None,
   recordings |-> None]

\* the keys of the in-memory map that hold the same object as key k
SameObject(sh, k) == {k} \cup UNION {c \in sh : k \in c}

\* key k is pointed at another object: it leaves the set it shared an object with
Unshare(sh, k) == {c \ {k} : c \in {d \in sh : Cardinality(d \ {k}) > 1}}

\* a mutation of the object held under key k, seen through every key that holds it
MemWrite(mem, sh, k, session) ==
  [x \in DOMAIN mem |-> IF x \in SameObject(sh, k) THEN session ELSE mem[x]]

CreateSession(options) ==
  /\ uuidCount < Len(Uuids)
  /\ LET sessionId == Uuid(uuidCount + 1)
         session == NewSession(sessionId, options, clock)
     IN /\ redisSessions' = CacheSetSession(redisSessions, sessionId, session)
        /\ activeSessions' = MapSet(activeSessions, sessionId, session)
        /\ shared' = Unshare(shared, sessionId)
        /\ uuidCount' = uuidCount + 1
        /\ result' = Returned("session", session)
        /\ lastOp' = Did("createSession", sessionId, options, FALSE)
  /\ UNCHANGED <<connected, clock, entryCount, redisHistory, redisRecordings, recordingCount,
                 recordingSessions, appended>>

\* a join that pushes the participant without looking for it in the list
JoinedAlwaysPushing(session, sessionId, participantId, options) ==
  [session EXCEPT
     !.participants = Append(@, participantId),
     !.language = OrElse(options.language, @),
     !.voice = OrElse(options.voice, @),
     !.lastActivity = clock,
     !.history = CacheGetSessionHistory(sessionId)]

\* the session after joinSession added the participant and refreshed it
Joined(session, sessionId, participantId, options) ==
  [session EXCEPT
     !.participants = IF participantId \in Range(@) THEN @ ELSE Append(@, participantId),
     !.language = OrElse(options.language, @),
     !.voice = OrElse(options.voice, @),
     !.lastActivity = clock,
     !.history = CacheGetSessionHistory(sessionId)]

JoinSession(sessionId, participantId, options) ==
  LET found == CacheGetSession(sessionId) IN
  IF found # None
    THEN LET session == Joined(found[1], sessionId, participantId, options) IN
         /\ redisSessions' = CacheSetSession(redisSessions, sessionId, session)
         /\ activeSessions' = MapSet(activeSessions, sessionId, session)
         /\ shared' = Unshare(shared, sessionId)
         /\ result' = Returned("session", session)
         /\ lastOp' = Did("joinSession", sessionId, participantId, FALSE)
         /\ UNCHANGED <<connected, clock, uuidCount, entryCount, redisHistory,
                        redisRecordings, recordingCount, recordingSessions, appended>>
    ELSE \* createSession(options): the new object is stored under its own id,
         \* then mutated and stored under sessionId too
         /\ uuidCount < Len(Uuids)
         /\ LET newId == Uuid(uuidCount + 1)
                created == NewSession(newId, options, clock)
                session == Joined(created, sessionId, participantId, options)
            IN /\ redisSessions' =
                    CacheSetSession(CacheSetSession(redisSessions, newId, created),
                                    sessionId, session)
               /\ activeSessions' =
                    MapSet(MapSet(activeSessions, newId, session), sessionId, session)
               /\ shared' = Unshare(Unshare(shared, newId), sessionId)
                              \cup {{newId, sessionId}}
               /\ uuidCount' = uuidCount + 1
               /\ result' = Returned("session", session)
               /\ lastOp' = Did("joinSession", sessionId, participantId, FALSE)
         /\ UNCHANGED <<connected, clock, entryCount, redisHistory, redisRecordings, recordingCount,
                        recordingSessions, appended>>

\* who left, whether that removed a participant, and whether the session was torn down
Left(participantId, removed, tornDown) ==
  [participantId |-> participantId, removed |-> removed, tornDown |-> tornDown]

LeaveSession(sessionId, participantId) ==
  LET found == CacheGetSession(sessionId) IN
  /\ IF found = None
       THEN /\ lastOp' = Did("leaveSession", sessionId,
                              Left(participantId, FALSE, FALSE), FALSE)
            /\ UNCHANGED <<redisSessions, activeSessions, shared, recordingSessions>>
       ELSE LET session == [found[1] EXCEPT
                              !.participants = Without(@, participantId),
                              !.lastActivity = clock]
                removed == participantId \in Range(found[1].participants)
            IN IF Len(session.participants) = 0
                 THEN /\ redisSessions' = CacheDeleteSession(redisSessions, sessionId)
                      /\ activeSessions' = MapDelete(activeSessions, sessionId)
                      /\ shared' = Unshare(shared, sessionId)
                      /\ recordingSessions' = MapDelete(recordingSessions, sessionId)
                      /\ lastOp' = Did("leaveSession", sessionId,
                                        Left(participantId, removed, TRUE), FALSE)
                 ELSE /\ redisSessions' = CacheSetSession(redisSessions, sessionId, session)
                      /\ activeSessions' = MapSet(activeSessions, sessionId, session)
                      /\ shared' = Unshare(shared, sessionId)
                      /\ lastOp' = Did("leaveSession", sessionId,
                                        Left(participantId, removed, FALSE), FALSE)
                      /\ UNCHANGED recordingSessions
  /\ result' = Returned("undefined", 0)
  /\ UNCHANGED <<connected, clock, uuidCount, entryCount, redisHistory, redisRecordings, recordingCount,
                 appended>>

\* what getSession(sessionId) returns: the in-memory object, else the stored one
Lookup(sessionId) ==
  IF sessionId \in DOMAIN activeSessions
    THEN Some(activeSessions[sessionId])
    ELSE CacheGetSession(sessionId)

\* a getSession that hands a store hit to its caller without caching it
MemAfterGetUncached(sessionId) == activeSessions

\* the in-memory map after getSession(sessionId): a store hit is cached
MemAfterGet(sessionId) ==
  IF sessionId \notin DOMAIN activeSessions /\ CacheGetSession(sessionId) # None
    THEN MapSet(activeSessions, sessionId, CacheGetSession(sessionId)[1])
    ELSE activeSessions

GetSession(sessionId) ==
  /\ activeSessions' = MemAfterGet(sessionId)
  /\ result' = IF Lookup(sessionId) = None
                 THEN Returned("null", 0)
                 ELSE Returned("session", Lookup(sessionId)[1])
  /\ lastOp' = Did("getSession", sessionId, 0, FALSE)
  /\ UNCHANGED <<connected, clock, uuidCount, entryCount, redisSessions, redisHistory,
                 redisRecordings, recordingCount, shared, recordingSessions, appended>>

\* the history entry addToHistory builds; its id stands for the whole entry
HistoryEntry(n) == n

AddToHistory(sessionId) ==
  /\ IF Lookup(sessionId) = None
       THEN /\ result' = Returned("error", "Session not found")
            /\ lastOp' = Did("addToHistory", sessionId, 0, TRUE)
            /\ UNCHANGED <<entryCount, redisSessions, redisHistory, activeSessions, appended>>
       ELSE LET historyEntry == HistoryEntry(entryCount + 1)
                stored == CacheAddToSessionHistory(redisHistory, sessionId, historyEntry)
                session == [Lookup(sessionId)[1] EXCEPT
                              !.history = IF connected
                                            THEN LRange(StoredHistory(stored, sessionId), 0, -1)
                                            ELSE <<>>,
                              !.lastActivity = clock]
            IN /\ entryCount' = entryCount + 1
               /\ redisHistory' = stored
               /\ appended' = IF connected
                                THEN MapSet(appended, sessionId,
                                            Append(StoredHistory(appended, sessionId),
                                                   historyEntry))
                                ELSE appended
               /\ redisSessions' = CacheSetSession(redisSessions, sessionId, session)
               /\ activeSessions' = MemWrite(MemAfterGet(sessionId), shared, sessionId, session)
               /\ result' = Returned("entry", historyEntry)
               /\ lastOp' = Did("addToHistory", sessionId, historyEntry, FALSE)
  /\ UNCHANGED <<connected, clock, uuidCount, redisRecordings, recordingCount, shared, recordingSessions>>

GetSessionHistory(sessionId, limit) ==
  /\ result' = Returned("history", Slice(CacheGetSessionHistory(sessionId), -limit))
  /\ lastOp' = Did("getSessionHistory", sessionId, limit, FALSE)
  /\ UNCHANGED <<connected, clock, uuidCount, entryCount, redisSessions, redisHistory,
                 redisRecordings, recordingCount, activeSessions, shared, recordingSessions, appended>>

\* startRecording keeping the accumulator of a recording that already runs
StartedAccumulatorOnce(m, sessionId, startTime) ==
  IF sessionId \in DOMAIN m
    THEN m
    ELSE MapSet(m, sessionId, [startTime |-> startTime, data |-> <<>>])

\* the accumulator startRecording installs for the session
StartedAccumulator(m, sessionId, startTime) ==
  MapSet(m, sessionId, [startTime |-> startTime, data |-> <<>>])

\* whether the call found the session recording, and with how many data points
RecordingSeen(sessionId) ==
  [wasRecording |-> Lookup(sessionId) # None /\ Lookup(sessionId)[1].isRecording,
   dataPoints |-> IF sessionId \in DOMAIN recordingSessions
                    THEN Len(recordingSessions[sessionId].data) ELSE 0,
   startTime |-> IF sessionId \in DOMAIN recordingSessions
                   THEN Some(recordingSessions[sessionId].startTime) ELSE None]

StartRecording(sessionId) ==
  /\ IF Lookup(sessionId) = None
       THEN /\ result' = Returned("error", "Session not found")
            /\ lastOp' = Did("startRecording", sessionId, RecordingSeen(sessionId), TRUE)
            /\ UNCHANGED <<redisSessions, activeSessions, recordingSessions>>
       ELSE LET session == [Lookup(sessionId)[1] EXCEPT
                              !.isRecording = TRUE,
                              !.recordingStartTime = Some(clock),
                              !.recordingData = <<>>]
            IN /\ redisSessions' = CacheSetSession(redisSessions, sessionId, session)
               /\ activeSessions' = MemWrite(MemAfterGet(sessionId), shared, sessionId, session)
               /\ recordingSessions' = StartedAccumulator(recordingSessions, sessionId, clock)
               /\ result' = Returned("session", session)
               /\ lastOp' = Did("startRecording", sessionId, RecordingSeen(sessionId), FALSE)
  /\ UNCHANGED <<connected, clock, uuidCount, entryCount, redisHistory, redisRecordings, recordingCount,
                 shared, appended>>

\* the data point addRecordingData pushes
DataPoint(data) == [timestamp |-> clock, data |-> data]

\* an addRecordingData that starts an accumulator for a session that has none
AccumulatedOrStarted(m, sessionId, data) ==
  IF sessionId \in DOMAIN m
    THEN [m EXCEPT ![sessionId].data = Append(@, DataPoint(data))]
    ELSE MapSet(m, sessionId, [startTime |-> clock, data |-> <<DataPoint(data)>>])

\* the accumulators after addRecordingData
Accumulated(m, sessionId, data) ==
  IF sessionId \in DOMAIN m
    THEN [m EXCEPT ![sessionId].data = Append(@, DataPoint(data))]
    ELSE m

AddRecordingData(sessionId, data) ==
  /\ sessionId \in DOMAIN recordingSessions
       => Len(recordingSessions[sessionId].data) < MaxData
  /\ recordingSessions' = Accumulated(recordingSessions, sessionId, data)
  /\ result' = Returned("undefined", 0)
  /\ lastOp' = Did("addRecordingData", sessionId, data, FALSE)
  /\ UNCHANGED <<connected, clock, uuidCount, entryCount, redisSessions, redisHistory,
                 redisRecordings, recordingCount, activeSessions, shared, appended>>

\* the number of history entries a recording keeps
SnapshotSize == 20

\* the lifetime of a stored recording, in seconds
RecordingTtl == 86400

\* the key recording:<id> as SETEX writes it: the value and the instant it expires
StoredRecording(recordingData) ==
  [value |-> recordingData, expiresAt |-> clock + RecordingTtl * 1000]

\* a read that rebuilds the history of the recording from the live history of
\* the session that owns it
CacheGetRecordingLive(recordingId) ==
  IF /\ connected
     /\ recordingId \in DOMAIN redisRecordings
     /\ clock < redisRecordings[recordingId].expiresAt
    THEN LET recording == redisRecordings[recordingId].value
         IN Some([recording EXCEPT
                    !.history = Slice(CacheGetSessionHistory(recording.sessionId),
                                      -SnapshotSize)])
    ELSE None

\* cacheService.get('recording:' + recordingId)
CacheGetRecording(recordingId) ==
  IF /\ connected
     /\ recordingId \in DOMAIN redisRecordings
     /\ clock < redisRecordings[recordingId].expiresAt
    THEN Some(redisRecordings[recordingId].value)
    ELSE None

\* a deleteSession that leaves the recordings of the session in the store
CacheDelRecordingsSkipped(store, ids) == store

\* cacheService.del('recording:' + id) for every id of a list
CacheDelRecordings(store, ids) ==
  IF connected THEN [r \in (DOMAIN store) \ ids |-> store[r]] ELSE store

\* the recording stopRecording builds from the session and the accumulator
RecordingData(session, recording, sessionId, recordingId) ==
  [id |-> recordingId,
   sessionId |-> sessionId,
   startTime |-> recording.startTime,
   endTime |-> clock,
   duration |-> Minus(clock, session.recordingStartTime),
   data |-> recording.data,
   history |-> Slice(session.history, -SnapshotSize)]

\* a stop that makes up an empty accumulator for a session that has none
RecordingOrEmpty(sessionId) ==
  IF sessionId \in DOMAIN recordingSessions
    THEN Some(recordingSessions[sessionId])
    ELSE Some([startTime |-> clock, data |-> <<>>])

\* this.recordingSessions.get(sessionId)
RecordingOf(sessionId) ==
  IF sessionId \in DOMAIN recordingSessions
    THEN Some(recordingSessions[sessionId])
    ELSE None

StopRecording(sessionId) ==
  /\ IF Lookup(sessionId) # None /\ RecordingOf(sessionId) # None
       THEN /\ recordingCount < Len(RecordingIds)
            /\ LET recordingData == RecordingData(Lookup(sessionId)[1],
                                                  RecordingOf(sessionId)[1], sessionId,
                                                  RecordingId(recordingCount + 1))
                   session == [Lookup(sessionId)[1] EXCEPT
                                 !.isRecording = FALSE,
                                 !.recordingEndTime = Some(clock),
                                 !.recordingDuration = recordingData.duration,
                                 !.recordings = Some(Append(OrEmpty(@), recordingData.id))]
               IN /\ recordingCount' = recordingCount + 1
                  /\ redisRecordings' =
                       IF connected
                         THEN MapSet(redisRecordings, recordingData.id,
                                     StoredRecording(recordingData))
                         ELSE redisRecordings
                  /\ redisSessions' = CacheSetSession(redisSessions, sessionId, session)
                  /\ activeSessions' =
                       MemWrite(MemAfterGet(sessionId), shared, sessionId, session)
                  /\ recordingSessions' = MapDelete(recordingSessions, sessionId)
                  /\ result' = Returned("recording", recordingData)
                  /\ lastOp' = Did("stopRecording", sessionId, recordingData.id, FALSE)
       ELSE /\ activeSessions' = MemAfterGet(sessionId)
            /\ result' = Returned("error", "Session or recording not found")
            /\ lastOp' = Did("stopRecording", sessionId, "", TRUE)
            /\ UNCHANGED <<recordingCount, redisRecordings, redisSessions, recordingSessions>>
  /\ UNCHANGED <<connected, clock, uuidCount, entryCount, redisHistory, shared, appended>>

GetRecording(recordingId) ==
  /\ result' = IF CacheGetRecording(recordingId) = None
                 THEN Returned("null", 0)
                 ELSE Returned("recording", CacheGetRecording(recordingId)[1])
  /\ lastOp' = Did("getRecording", recordingId, 0, FALSE)
  /\ UNCHANGED <<connected, clock, uuidCount, entryCount, redisSessions, redisHistory,
                 redisRecordings, recordingCount, activeSessions, shared, recordingSessions,
                 appended>>

\* an update that names no field
NoUpdates == [language |-> None, voice |-> None, lastActivity |-> None,
              recordingStartTime |-> None]

\* the transport's change of language
LanguageUpdate == [NoUpdates EXCEPT !.language = Some("hi")]

\* the updates callers pass: the transport's language and voice changes, and
\* request bodies that name fields the manager keeps itself
\* a request body that names lastActivity, with a time in the past
StaleActivityUpdate == [NoUpdates EXCEPT !.lastActivity = Some(0)]

UpdateChoices ==
  {LanguageUpdate,
   [NoUpdates EXCEPT !.voice = Some("female")],
   [NoUpdates EXCEPT !.lastActivity = Some(0)],
   [NoUpdates EXCEPT !.recordingStartTime = Some(Some(0))]}

\* Object.assign(session, updates)
Assigned(session, updates) ==
  [session EXCEPT
     !.language = IF updates.language = None THEN @ ELSE updates.language[1],
     !.voice = IF updates.voice = None THEN @ ELSE updates.voice[1],
     !.lastActivity = IF updates.lastActivity = None THEN @ ELSE updates.lastActivity[1],
     !.recordingStartTime =
        IF updates.recordingStartTime = None THEN @ ELSE updates.recordingStartTime[1]]

\* updateSession creating the session it does not find
UpdateTargetOrNew(sessionId) ==
  IF Lookup(sessionId) = None
    THEN Some(NewSession(sessionId, NoOptions, clock))
    ELSE Lookup(sessionId)

\* the session updateSession works on
UpdateTarget(sessionId) == Lookup(sessionId)

\* an update that keeps the lastActivity its caller supplied
UpdatedKeepingSupplied(session, updates) ==
  IF updates.lastActivity = None
    THEN [Assigned(session, updates) EXCEPT !.lastActivity = clock]
    ELSE Assigned(session, updates)

\* the session after Object.assign and the refresh of lastActivity that follows it
Updated(session, updates) == [Assigned(session, updates) EXCEPT !.lastActivity = clock]

UpdateSession(sessionId, updates) ==
  /\ IF UpdateTarget(sessionId) # None
       THEN LET session == Updated(UpdateTarget(sessionId)[1], updates)
            IN /\ redisSessions' = CacheSetSession(redisSessions, sessionId, session)
               /\ activeSessions' =
                    MemWrite(MapSet(MemAfterGet(sessionId), sessionId, session),
                             shared, sessionId, session)
               /\ result' = Returned("session", session)
               /\ lastOp' = Did("updateSession", sessionId, updates, FALSE)
       ELSE /\ result' = Returned("error", "Session not found")
            /\ lastOp' = Did("updateSession", sessionId, updates, TRUE)
            /\ UNCHANGED <<redisSessions, activeSessions>>
  /\ UNCHANGED <<connected, clock, uuidCount, entryCount, redisHistory, redisRecordings,
                 recordingCount, shared, recordingSessions, appended>>

DeleteSession(sessionId) ==
  /\ IF Lookup(sessionId) # None
       THEN /\ redisRecordings' =
                 CacheDelRecordings(redisRecordings,
                                    Range(OrEmpty(Lookup(sessionId)[1].recordings)))
            /\ redisSessions' = CacheDeleteSession(redisSessions, sessionId)
            /\ redisHistory' = IF connected THEN MapDelete(redisHistory, sessionId)
                                            ELSE redisHistory
            /\ activeSessions' = MapDelete(activeSessions, sessionId)
            /\ shared' = Unshare(shared, sessionId)
            /\ recordingSessions' = MapDelete(recordingSessions, sessionId)
            /\ result' = Returned("boolean", TRUE)
            /\ lastOp' = Did("deleteSession", sessionId,
                              Range(OrEmpty(Lookup(sessionId)[1].recordings)), FALSE)
       ELSE /\ result' = Returned("boolean", FALSE)
            /\ lastOp' = Did("deleteSession", sessionId, {}, FALSE)
            /\ UNCHANGED <<redisRecordings, redisSessions, redisHistory, activeSessions,
                           shared, recordingSessions>>
  /\ UNCHANGED <<connected, clock, uuidCount, entryCount, recordingCount, appended>>

\* the inactivity threshold, in milliseconds
InactiveThreshold == 1800000

\* the in-memory sessions the sweep finds inactive
Inactive == {s \in DOMAIN activeSessions :
               clock - activeSessions[s].lastActivity > InactiveThreshold}

\* the session leaveSession stores when participants remain
LeftSession(session, participantId) ==
  [session EXCEPT !.participants = Without(@, participantId), !.lastActivity = clock]

\* the inactive sessions leaveSession(s, 'system') finds in the store and empties
SweptAway ==
  {s \in Inactive : /\ CacheGetSession(s) # None
                    /\ LeftSession(CacheGetSession(s)[1], SystemParticipant).participants = <<>>}

\* the inactive sessions leaveSession(s, 'system') finds in the store and stores again
SweptAndKept ==
  {s \in Inactive : /\ CacheGetSession(s) # None
                    /\ LeftSession(CacheGetSession(s)[1], SystemParticipant).participants # <<>>}

\* several keys are pointed at other objects or removed
UnshareAll(sh, ks) == {c \ ks : c \in {d \in sh : Cardinality(d \ ks) > 1}}

\* one leaveSession(s, 'system') per inactive in-memory session; each call
\* reads and writes the entries of its own session id only
CleanupInactiveSessions ==
  /\ redisSessions' =
       [s \in (DOMAIN redisSessions) \ SweptAway |->
          IF s \in SweptAndKept
            THEN LeftSession(redisSessions[s], SystemParticipant)
            ELSE redisSessions[s]]
  /\ activeSessions' =
       [s \in (DOMAIN activeSessions) \ SweptAway |->
          IF s \in SweptAndKept
            THEN LeftSession(redisSessions[s], SystemParticipant)
            ELSE activeSessions[s]]
  /\ shared' = UnshareAll(shared, SweptAway \cup SweptAndKept)
  /\ recordingSessions' =
       [s \in (DOMAIN recordingSessions) \ SweptAway |-> recordingSessions[s]]
  /\ result' = Returned("undefined", 0)
  /\ lastOp' = Did("cleanupInactiveSessions", "", Inactive, FALSE)
  /\ UNCHANGED <<connected, clock, uuidCount, entryCount, redisHistory, redisRecordings,
                 recordingCount, appended>>

\* more time than the inactivity threshold passes at once
Elapse ==
  /\ clock <= MaxTime
  /\ clock' = clock + InactiveThreshold + 1
  /\ lastOp' = Did("elapse", "", 0, FALSE)
  /\ UNCHANGED <<connected, uuidCount, entryCount, redisSessions, redisHistory,
                 redisRecordings, recordingCount, activeSessions, shared, recordingSessions,
                 appended, result>>

\* a call that creates no session once one was created: the behaviours of
\* the specifications below that use it have one created session
OneSession(sessionId) == uuidCount = 0 \/ CacheGetSession(sessionId) # None

-----------------------------------------------------------------------------
(* joinSession and leaveSession step by step: each await of a Redis command   *)
(* lets the handlers of other sockets run.  The local variable `session` of   *)
(* a call is the copy JSON.parse made of what its GET read.                   *)

\* the options of 'join-session': language and voice default to 'en' and 'male'
SocketOptions ==
  [NoOptions EXCEPT !.language = Some(DefaultLanguage), !.voice = Some(DefaultVoice)]

\* a participant inside no call
NoCall == [op |-> "none", pc |-> "idle", sid |-> "", session |-> None]

\* a call of the participant that stands at the await named pc
Awaiting(op, pc, sessionId, session) ==
  [op |-> op, pc |-> pc, sid |-> sessionId, session |-> session]

\* the steps below leave these alone
InFlightUnchanged ==
  UNCHANGED <<liveVars, sockets, connected, clock, uuidCount, entryCount, redisHistory,
              redisRecordings, recordingCount, appended>>

\* joinSession up to the answer of cacheService.getSession, for a stored session
JoinGetSession(sessionId, participantId) ==
  /\ inFlight[participantId].pc \in {"idle", "returned"}
  /\ CacheGetSession(sessionId) # None
  /\ inFlight' = [inFlight EXCEPT ![participantId] =
                    Awaiting("joinSession", "getSessionHistory", sessionId,
                             CacheGetSession(sessionId))]
  /\ lastOp' = Did("joinSession.getSession", sessionId, participantId, FALSE)
  /\ UNCHANGED <<redisSessions, activeSessions, shared, recordingSessions, result>>
  /\ InFlightUnchanged

\* joinSession from there to the answer of cacheService.getSessionHistory
JoinGetSessionHistory(participantId) ==
  LET call == inFlight[participantId] IN
  /\ call.op = "joinSession" /\ call.pc = "getSessionHistory"
  /\ inFlight' = [inFlight EXCEPT ![participantId] =
                    Awaiting("joinSession", "setSession", call.sid,
                             Some(Joined(call.session[1], call.sid, participantId,
                                         SocketOptions)))]
  /\ lastOp' = Did("joinSession.getSessionHistory", call.sid, participantId, FALSE)
  /\ UNCHANGED <<redisSessions, activeSessions, shared, recordingSessions, result>>
  /\ InFlightUnchanged

\* joinSession from there to the answer of cacheService.setSession
JoinSetSession(participantId) ==
  LET call == inFlight[participantId] IN
  /\ call.op = "joinSession" /\ call.pc = "setSession"
  /\ redisSessions' = CacheSetSession(redisSessions, call.sid, call.session[1])
  /\ inFlight' = [inFlight EXCEPT ![participantId].pc = "activeSessions"]
  /\ lastOp' = Did("joinSession.setSession", call.sid, participantId, FALSE)
  /\ UNCHANGED <<activeSessions, shared, recordingSessions, result>>
  /\ InFlightUnchanged

\* joinSession from there to its return
JoinReturn(participantId) ==
  LET call == inFlight[participantId] IN
  /\ call.op = "joinSession" /\ call.pc = "activeSessions"
  /\ activeSessions' = MapSet(activeSessions, call.sid, call.session[1])
  /\ shared' = Unshare(shared, call.sid)
  /\ result' = Returned("session", call.session[1])
  /\ inFlight' = [inFlight EXCEPT ![participantId].pc = "returned"]
  /\ lastOp' = Did("joinSession", call.sid, participantId, FALSE)
  /\ UNCHANGED <<redisSessions, recordingSessions>>
  /\ InFlightUnchanged

\* the session leaveSession keeps or tears down: its copy without the leaver
LeftCopy(session, participantId) ==
  [session EXCEPT !.participants = Without(@, participantId), !.lastActivity = clock]

\* leaveSession up to the answer of cacheService.getSession; it returns at once
\* when the store has no such session
LeaveGetSession(sessionId, participantId) ==
  LET found == CacheGetSession(sessionId) IN
  /\ inFlight[participantId].pc \in {"idle", "returned"}
  /\ IF found = None
       THEN /\ inFlight' = [inFlight EXCEPT ![participantId] =
                              Awaiting("leaveSession", "returned", sessionId, None)]
            /\ lastOp' = Did("leaveSession", sessionId,
                              Left(participantId, FALSE, FALSE), FALSE)
            /\ result' = Returned("undefined", 0)
       ELSE /\ inFlight' = [inFlight EXCEPT ![participantId] =
                              Awaiting("leaveSession", "store", sessionId, found)]
            /\ lastOp' = Did("leaveSession.getSession", sessionId, participantId, FALSE)
            /\ UNCHANGED result
  /\ UNCHANGED <<redisSessions, activeSessions, shared, recordingSessions>>
  /\ InFlightUnchanged

\* leaveSession from there to the answer of deleteSession or setSession
LeaveStore(participantId) ==
  LET call == inFlight[participantId]
      session == LeftCopy(call.session[1], participantId)
  IN
  /\ call.op = "leaveSession" /\ call.pc = "store"
  /\ redisSessions' = IF Len(session.participants) = 0
                        THEN CacheDeleteSession(redisSessions, call.sid)
                        ELSE CacheSetSession(redisSessions, call.sid, session)
  /\ inFlight' = [inFlight EXCEPT ![participantId].pc = "activeSessions"]
  /\ lastOp' = Did("leaveSession.store", call.sid, participantId, FALSE)
  /\ UNCHANGED <<activeSessions, shared, recordingSessions, result>>
  /\ InFlightUnchanged

\* leaveSession from there to its return
LeaveReturn(participantId) ==
  LET call == inFlight[participantId]
      session == LeftCopy(call.session[1], participantId)
      tornDown == Len(session.participants) = 0
  IN
  /\ call.op = "leaveSession" /\ call.pc = "activeSessions"
  /\ activeSessions' = IF tornDown
                         THEN MapDelete(activeSessions, call.sid)
                         ELSE MapSet(activeSessions, call.sid, session)
  /\ shared' = Unshare(shared, call.sid)
  /\ recordingSessions' = IF tornDown
                            THEN MapDelete(recordingSessions, call.sid)
                            ELSE recordingSessions
  /\ result' = Returned("undefined", 0)
  /\ inFlight' = [inFlight EXCEPT ![participantId].pc = "returned"]
  /\ lastOp' = Did("leaveSession", call.sid,
                   Left(participantId, participantId \in Range(call.session[1].participants),
                        tornDown), FALSE)
  /\ UNCHANGED redisSessions
  /\ InFlightUnchanged

-----------------------------------------------------------------------------
(* Socket transport of index.js: one closure per connection, whose            *)
(* currentSession is the session object joinSession returned.  The handlers   *)
(* use its id only, so the id stands for the object.                          *)

\* the connections of one behaviour; socket.id is the participant id
Sockets == Participants

\* io.on('connection'): a connected socket in no room, currentSession = null
NewSocket == [connected |-> TRUE, room |-> None, currentSession |-> None]

\* socket.on('join-session'): joinSession, then openSession under the requested
\* id, then socket.join(sessionId)
OnJoinSession(socket, sessionId) ==
  /\ sockets[socket].connected
  /\ JoinSession(sessionId, socket, SocketOptions)
  /\ sessions' = MapSet(sessions, sessionId, NewLiveState(sessionId, SystemInstruction))
  /\ emitted' = <<Event("session-opened", sessionId)>>
  /\ sockets' = [sockets EXCEPT ![socket].room = Some(sessionId),
                                ![socket].currentSession = Some(result'.value.id)]
  /\ UNCHANGED <<calls, responses, inFlight>>

\* socket.on('audio-stream') with a currentSession; without one it only
\* answers the socket with an error
OnAudioStream(socket) ==
  /\ sockets[socket].connected
  /\ sockets[socket].currentSession # None
  /\ SendAudioChunk(sockets[socket].currentSession[1])
  /\ UNCHANGED <<registryVars, sockets, inFlight>>

\* socket.on('interrupt') with a currentSession; without one it does nothing
OnInterrupt(socket) ==
  /\ sockets[socket].connected
  /\ sockets[socket].currentSession # None
  /\ Interrupt(sockets[socket].currentSession[1])
  /\ UNCHANGED <<registryVars, sockets, inFlight>>

\* the LiveStates after the disconnect of a socket whose currentSession has
\* the id sessionId: closeSession, whoever else is in the session
ClosedOnDisconnect(m, socket, sessionId) == MapDelete(m, sessionId)

\* socket.on('disconnect'): closeSession and leaveSession for the currentSession
OnDisconnect(socket) ==
  /\ sockets[socket].connected
  /\ sockets' = [sockets EXCEPT ![socket].connected = FALSE]
  /\ UNCHANGED inFlight
  /\ IF sockets[socket].currentSession = None
       THEN /\ lastOp' = Did("disconnect", "", socket, FALSE)
            /\ emitted' = <<>>
            /\ UNCHANGED <<sessions, calls, responses, registryVars>>
       ELSE LET sessionId == sockets[socket].currentSession[1] IN
            /\ sessions' = ClosedOnDisconnect(sessions, socket, sessionId)
            /\ emitted' = <<Event("session-closed", sessionId)>>
            /\ calls' = Mark(sessionId, "closed")
            /\ LeaveSession(sessionId, socket)
            /\ UNCHANGED responses

\* geminiLive.on('response'): the payload is broadcast to the room of its
\* sessionId; the listener calls nothing of the session registry
OnResponse == UNCHANGED <<registryVars, sockets, inFlight>>

InitLive ==
  /\ sessions = EmptyMap
  /\ calls = <<>>
  /\ responses = <<>>
  /\ emitted = <<>>
  /\ lastOp = Op("init", "", 0, FALSE)

InitRegistry ==
  /\ connected = TRUE
  /\ clock = 0
  /\ uuidCount = 0
  /\ entryCount = 0
  /\ redisSessions = EmptyMap
  /\ redisHistory = EmptyMap
  /\ redisRecordings = EmptyMap
  /\ recordingCount = 0
  /\ activeSessions = EmptyMap
  /\ shared = {}
  /\ recordingSessions = EmptyMap
  /\ appended = EmptyMap
  /\ result = Returned("none", 0)

InitTransport ==
  sockets = [socket \in Sockets |-> NewSocket]

InitInFlight ==
  inFlight = [participantId \in Participants |-> NoCall]

Init == InitLive /\ InitRegistry /\ InitTransport /\ InitInFlight

NextLive ==
  /\ \/ \E s \in LiveIds : OpenSession(s)
     \/ \E s \in LiveIds : CloseSession(s)
     \/ \E s \in LiveIds : Interrupt(s)
     \/ \E s \in LiveIds : SendAudioChunk(s)
     \/ \E c \in 1..MaxCalls : GetResponseReturns(c)
     \/ \E c \in 1..MaxCalls : GetResponseFails(c)
  /\ UNCHANGED <<registryVars, sockets, inFlight>>

SpecLive == Init /\ [][NextLive]_vars

\* the session registry and the history ledger over a Redis connection that may drop,
\* at one instant of the clock
NextRegistry ==
  /\ \/ \E o \in OptionChoices : uuidCount = 0 /\ CreateSession(o)
     \/ \E s \in SessionIds, p \in Participants, o \in OptionChoices :
          OneSession(s) /\ JoinSession(s, p, o)
     \/ \E s \in SessionIds, p \in Participants : LeaveSession(s, p)
     \/ \E s \in SessionIds : GetSession(s)
     \/ \E s \in SessionIds : entryCount < MaxEntries /\ AddToHistory(s)
     \/ \E s \in SessionIds, limit \in 1..MaxEntries : GetSessionHistory(s, limit)
     \/ Disconnect
     \/ Reconnect
  /\ UNCHANGED <<liveVars, sockets, inFlight>>

Spec == Init /\ [][NextRegistry]_vars

\* the recording capture of sessions that are created, joined and left, as time passes
NextRecording ==
  /\ \/ uuidCount = 0 /\ CreateSession(NoOptions)
     \/ \E s \in SessionIds, p \in Participants : OneSession(s) /\ JoinSession(s, p, NoOptions)
     \/ \E s \in SessionIds, p \in Participants : LeaveSession(s, p)
     \/ \E s \in SessionIds : StartRecording(s)
     \/ \E s \in SessionIds : AddRecordingData(s, "chunk")
     \/ Tick
  /\ UNCHANGED <<liveVars, sockets, inFlight>>

SpecRecording == Init /\ [][NextRecording]_vars

\* the history ledger of one session over more appends than the list keeps
NextHistory ==
  /\ \/ uuidCount = 0 /\ CreateSession(NoOptions)
     \/ \E s \in SessionIds : entryCount < MaxLongHistory /\ AddToHistory(s)
     \/ \E s \in SessionIds, limit \in HistoryLimits : GetSessionHistory(s, limit)
  /\ UNCHANGED <<liveVars, sockets, inFlight>>

SpecHistory == Init /\ [][NextHistory]_vars

\* recordings that are started and stopped on sessions that are joined, left
\* and updated, as time passes
NextCapture ==
  /\ \/ \E s \in SessionIds : OneSession(s) /\ JoinSession(s, Host, NoOptions)
     \/ \E s \in SessionIds : LeaveSession(s, Host)
     \/ \E s \in SessionIds : UpdateSession(s, LanguageUpdate)
     \/ \E s \in SessionIds : StartRecording(s)
     \/ \E s \in SessionIds : StopRecording(s)
     \/ Tick
  /\ UNCHANGED <<liveVars, sockets, inFlight>>

SpecCapture == Init /\ [][NextCapture]_vars

\* one session whose history grows beyond what a recording keeps, recorded
\* and stopped
NextSnapshot ==
  /\ \/ uuidCount = 0 /\ CreateSession(NoOptions)
     \/ \E s \in SessionIds : entryCount < MaxSnapshotHistory /\ AddToHistory(s)
     \/ \E s \in SessionIds : StartRecording(s)
     \/ \E s \in SessionIds : StopRecording(s)
     \/ \E r \in Range(RecordingIds) : GetRecording(r)
  /\ UNCHANGED <<liveVars, sockets, inFlight>>

SpecSnapshot == Init /\ [][NextSnapshot]_vars

\* a stored recording and what later happens to the session that owns it
NextArchive ==
  /\ \/ uuidCount = 0 /\ CreateSession(NoOptions)
     \/ \E s \in SessionIds : OneSession(s) /\ JoinSession(s, Host, NoOptions)
     \/ \E s \in SessionIds : UpdateSession(s, LanguageUpdate)
     \/ \E s \in SessionIds : entryCount < MaxEntries /\ AddToHistory(s)
     \/ \E s \in SessionIds : StartRecording(s)
     \/ \E s \in SessionIds : StopRecording(s)
     \/ \E r \in Range(RecordingIds) : GetRecording(r)
  /\ UNCHANGED <<liveVars, sockets, inFlight>>

SpecArchive == Init /\ [][NextArchive]_vars

\* a stored recording and the ways the session that owns it ends
NextRetention ==
  /\ \/ uuidCount = 0 /\ CreateSession(NoOptions)
     \/ \E s \in SessionIds : OneSession(s) /\ JoinSession(s, Host, NoOptions)
     \/ \E s \in SessionIds : LeaveSession(s, Host)
     \/ \E s \in SessionIds : StartRecording(s)
     \/ \E s \in SessionIds : StopRecording(s)
     \/ \E r \in Range(RecordingIds) : GetRecording(r)
     \/ \E s \in SessionIds : DeleteSession(s)
     \/ CleanupInactiveSessions
     \/ Elapse
  /\ UNCHANGED <<liveVars, sockets, inFlight>>

SpecRetention == Init /\ [][NextRetention]_vars

\* sessions that are created, joined, left and updated while the Redis
\* connection drops and comes back; a join that misses the store creates again
NextOutage ==
  /\ \/ CreateSession(NoOptions)
     \/ \E s \in SessionIds, p \in Participants : JoinSession(s, p, NoOptions)
     \/ \E s \in SessionIds, p \in Participants : LeaveSession(s, p)
     \/ \E s \in SessionIds : UpdateSession(s, LanguageUpdate)
     \/ \E s \in SessionIds : GetSession(s)
     \/ Disconnect
     \/ Reconnect
  /\ UNCHANGED <<liveVars, sockets, inFlight>>

SpecOutage == Init /\ [][NextOutage]_vars

\* the lastActivity of sessions that are joined, left, updated and recorded as
\* time passes and the Redis connection drops and comes back
NextActivity ==
  /\ \/ \E s \in SessionIds : OneSession(s) /\ JoinSession(s, Host, NoOptions)
     \/ \E s \in SessionIds : LeaveSession(s, Host)
     \/ \E s \in SessionIds : UpdateSession(s, StaleActivityUpdate)
     \/ \E s \in SessionIds : StartRecording(s)
     \/ Tick
     \/ Disconnect
     \/ Reconnect
  /\ UNCHANGED <<liveVars, sockets, inFlight>>

SpecActivity == Init /\ [][NextActivity]_vars

\* joins that name a session id, or none
NextAdmission ==
  /\ \/ uuidCount = 0 /\ CreateSession(NoOptions)
     \/ \E s \in SessionIds \cup {AbsentId}, p \in Participants :
          OneSession(s) /\ JoinSession(s, p, NoOptions)
     \/ \E s \in SessionIds \cup {AbsentId}, p \in Participants : LeaveSession(s, p)
     \/ \E s \in SessionIds \cup {AbsentId} : GetSession(s)
  /\ UNCHANGED <<liveVars, sockets, inFlight>>

SpecAdmission == Init /\ [][NextAdmission]_vars

\* lookups and explicit deletion over a Redis connection that may drop
NextLookup ==
  /\ \/ uuidCount = 0 /\ CreateSession(NoOptions)
     \/ \E s \in SessionIds : OneSession(s) /\ JoinSession(s, Host, NoOptions)
     \/ \E s \in SessionIds : GetSession(s)
     \/ \E s \in SessionIds : DeleteSession(s)
     \/ \E s \in SessionIds : entryCount < MaxEntries /\ AddToHistory(s)
     \/ \E s \in SessionIds : StartRecording(s)
     \/ Disconnect
     \/ Reconnect
  /\ UNCHANGED <<liveVars, sockets, inFlight>>

SpecLookup == Init /\ [][NextLookup]_vars

\* the socket handlers over the live service and the session registry, with
\* sessions created over the REST route
NextTransport ==
  \/ uuidCount = 0 /\ CreateSession(NoOptions) /\ UNCHANGED <<liveVars, sockets, inFlight>>
  \/ \E socket \in Sockets, s \in SessionIds : OneSession(s) /\ OnJoinSession(socket, s)
  \/ \E socket \in Sockets : OnAudioStream(socket)
  \/ \E socket \in Sockets : OnInterrupt(socket)
  \/ \E socket \in Sockets : OnDisconnect(socket)
  \/ \E c \in 1..MaxCalls : GetResponseReturns(c) /\ OnResponse
  \/ \E c \in 1..MaxCalls : GetResponseFails(c) /\ UNCHANGED <<registryVars, sockets, inFlight>>

SpecTransport == Init /\ [][NextTransport]_vars

\* joins and leaves of one stored session that interleave at their awaits
NextInterleaved ==
  \/ uuidCount = 0 /\ CreateSession(NoOptions) /\ UNCHANGED <<liveVars, sockets, inFlight>>
  \/ \E s \in SessionIds, p \in Participants : JoinGetSession(s, p)
  \/ \E p \in Participants : JoinGetSessionHistory(p)
  \/ \E p \in Participants : JoinSetSession(p)
  \/ \E p \in Participants : JoinReturn(p)
  \/ \E s \in SessionIds, p \in Participants : LeaveGetSession(s, p)
  \/ \E p \in Participants : LeaveStore(p)
  \/ \E p \in Participants : LeaveReturn(p)

SpecInterleaved == Init /\ [][NextInterleaved]_vars

-----------------------------------------------------------------------------
(* Live response coordinator: claims C1 - C6, stated for SpecLive *)

\* C1: for every session, at most one getResponse call started by
\* sendAudioChunk is outstanding (started and not yet returned), under any
\* interleaving of sendAudioChunk, interrupt, openSession and closeSession.
C1_AtMostOneOutstandingCall ==
  \A s \in LiveIds : Cardinality(Outstanding(s)) <= 1

\* C2: a call during which interrupt(S) was called never has its result
\* emitted as a 'response' event; every emitted response belongs to a call
\* that was not interrupted.
C2_InterruptedResultNeverEmitted ==
  \A c \in 1..Len(calls) : calls[c].interrupted => calls[c].outcome # "emitted"

\* C3: a call that was outstanding when closeSession(S) happened never has
\* its result emitted as a 'response' event, whatever follows the close
\* (a later openSession(S) included).
C3_ClosedResultNeverEmitted ==
  \A c \in 1..Len(calls) : calls[c].closed => calls[c].outcome # "emitted"

\* C4: a sendAudioChunk for a session whose LiveState has responding = TRUE,
\* or that has no LiveState, starts no call, emits no event, raises no error
\* and leaves the LiveState map unchanged.
C4_BusyOrUnknownChunkIsDropped ==
  [][\A s \in LiveIds :
       ( /\ s \notin DOMAIN sessions \/ sessions[s].responding
         /\ lastOp'.op = "sendAudioChunk"
         /\ lastOp'.sid = s )
       => /\ calls' = calls
          /\ sessions' = sessions
          /\ emitted' = <<>>
          /\ responses' = responses
          /\ ~lastOp'.threw]_vars

\* C4's case: a chunk was just dropped while a call of its session is in flight
C4_Witness ==
  \E s \in LiveIds :
    /\ lastOp = Op("sendAudioChunk", s, 0, FALSE)
    /\ s \in DOMAIN sessions
    /\ sessions[s].responding
    /\ Outstanding(s) # {}

\* C5: within one session 'response' events are emitted in the order in which
\* their calls were started.
C5_ResponsesInStartOrder ==
  \A i, j \in 1..Len(responses) :
    (i < j /\ responses[i].sessionId = responses[j].sessionId)
      => responses[i].call < responses[j].call

\* C6: when the getResponse call of a cycle fails, no 'response' event is
\* emitted for it, the session's LiveState (if still present) ends with
\* responding = FALSE, and the next sendAudioChunk of the session is not
\* dropped: it starts a new cycle.
C6_FailedCycleReturnsToIdle ==
  [][\A c \in 1..Len(calls) :
       (lastOp'.op = "getResponse.throw" /\ lastOp'.call = c)
       => /\ responses' = responses
          /\ emitted' = <<>>
          /\ calls'[c].outcome = "failed"
          /\ calls[c].sid \in DOMAIN sessions'
               => /\ ~sessions'[calls[c].sid].responding
                  /\ ~Dropped(calls[c].sid)']_vars

\* C6's case: a call has just failed and its session still has a LiveState
C6_Witness ==
  /\ lastOp.op = "getResponse.throw"
  /\ lastOp.sid \in DOMAIN sessions
  /\ calls[lastOp.call].outcome = "failed"

-----------------------------------------------------------------------------
(* Session registry and history ledger: claims C7 - C9 *)

Min(a, b) == IF a < b THEN a ELSE b

\* the entries a reader of the ledger is promised: the n most recently
\* appended ones, oldest first
MostRecent(all, n) == SubSeq(all, Len(all) - Min(n, Len(all)) + 1, Len(all))

\* the number of entries the ledger keeps per session
HistoryCapacity == 100

\* C7: after leaveSession removed the last participant of S, getSession(S)
\* returns absent and getSessionHistory(S, limit) returns an empty list for
\* every limit.  Stated for Spec.
C7_TeardownLeavesNoSessionNoHistory ==
  (lastOp.op = "leaveSession" /\ lastOp.arg.removed /\ lastOp.arg.tornDown)
    => /\ Lookup(lastOp.sid) = None
       /\ \A limit \in 1..MaxEntries :
            Slice(CacheGetSessionHistory(lastOp.sid), -limit) = <<>>

\* C8: getSessionHistory(sessionId, N) with N >= 1 returns the
\* min(N, number stored) most recently appended entries, oldest first, and
\* never more than 100 of them.  Stated for SpecHistory.
C8_ReadReturnsMostRecentOldestFirst ==
  lastOp.op = "getSessionHistory"
    => LET all == StoredHistory(appended, lastOp.sid)
           stored == Min(Len(all), HistoryCapacity)
       IN /\ result.value = MostRecent(all, Min(lastOp.arg, stored))
          /\ Len(result.value) <= HistoryCapacity

-----------------------------------------------------------------------------
(* Recording capture: claim C10, stated for SpecRecording *)

\* C10 as stated: startRecording(S) on a session that is already recording
\* fails with an AlreadyRecording error and leaves the recording start time
\* and the accumulated raw data points unchanged.
C10_SecondStartFails ==
  [][(lastOp'.op = "startRecording" /\ lastOp'.arg.wasRecording)
       => /\ lastOp'.threw
          /\ recordingSessions' = recordingSessions]_vars

\* C10 as amended: startRecording(S) on a session that is already recording
\* does not fail: it returns the session, still recording, with its recording
\* start time set to the current time, and replaces the accumulator of S by an
\* empty one that starts at the current time.
C10_SecondStartResets ==
  [][(lastOp'.op = "startRecording" /\ lastOp'.arg.wasRecording)
       => /\ ~lastOp'.threw
          /\ result'.kind = "session"
          /\ result'.value.isRecording
          /\ result'.value.recordingStartTime = Some(clock)
          /\ lastOp'.sid \in DOMAIN recordingSessions'
          /\ recordingSessions'[lastOp'.sid] = [startTime |-> clock, data |-> <<>>]]_vars

\* C10's case: a second start has just discarded data points and moved the start time
C10_Witness ==
  /\ lastOp.op = "startRecording"
  /\ lastOp.arg.wasRecording
  /\ lastOp.arg.dataPoints > 0
  /\ lastOp.arg.startTime # None
  /\ lastOp.arg.startTime[1] < clock
  /\ recordingSessions[lastOp.sid] = [startTime |-> clock, data |-> <<>>]

-----------------------------------------------------------------------------
(* Recordings: claims C11 - C14 *)

\* C11: every Recording returned by stopRecording(S) satisfies
\* duration = endTime - startTime, whatever sequence of joinSession,
\* leaveSession, updateSession and startRecording preceded the stop.
\* Stated for SpecCapture.
C11_DurationIsEndMinusStart ==
  (lastOp.op = "stopRecording" /\ ~lastOp.threw)
    => result.value.duration = Some(result.value.endTime - result.value.startTime)

\* C12: the history field of the Recording built by stopRecording(S) has at
\* most 20 entries and consists of the most recently appended history entries
\* of S at stop time (all of them when fewer than 20 exist).  Stated for
\* SpecSnapshot; the order of the entries is left open.
C12_SnapshotIsMostRecentTwenty ==
  (lastOp.op = "stopRecording" /\ ~lastOp.threw)
    => LET all == StoredHistory(appended, lastOp.sid)
           history == result.value.history
       IN /\ Len(history) <= SnapshotSize
          /\ Len(history) = Min(Len(all), SnapshotSize)
          /\ Range(history) = Range(MostRecent(all, SnapshotSize))

\* the operations of C13: what may follow the stop on the owning session
LaterSessionOps == {"addToHistory", "joinSession", "updateSession", "startRecording"}

\* C13: once stopRecording has stored a Recording, getRecording(id) returns
\* the same history snapshot (indeed the same recording) after any later
\* addToHistory, joinSession, updateSession or startRecording on the owning
\* session.  Stated for SpecArchive.
C13_SnapshotIsFrozen ==
  [][\A r \in DOMAIN redisRecordings :
       ( /\ CacheGetRecording(r) # None
         /\ lastOp'.op \in LaterSessionOps
         /\ lastOp'.sid = redisRecordings[r].value.sessionId )
       => /\ CacheGetRecording(r)' # None
          /\ CacheGetRecording(r)'[1].history = CacheGetRecording(r)[1].history
          /\ CacheGetRecording(r)' = CacheGetRecording(r)]_vars

\* C13's case: an entry was just appended to the history of a session whose
\* stored recording holds an earlier entry and not the new one
C13_Witness ==
  \E r \in DOMAIN redisRecordings :
    /\ lastOp.op = "addToHistory"
    /\ ~lastOp.threw
    /\ lastOp.sid = redisRecordings[r].value.sessionId
    /\ CacheGetRecording(r) # None
    /\ CacheGetRecording(r)[1].history # <<>>
    /\ lastOp.arg \notin Range(CacheGetRecording(r)[1].history)
    /\ lastOp.arg \in Range(CacheGetSessionHistory(lastOp.sid))

\* the ways a session ends
SessionEnds == {"leaveSession", "deleteSession", "cleanupInactiveSessions"}

-----------------------------------------------------------------------------
(* Session registry: claims C15 - C20 *)

\* C15: in every reachable state, every session present in the registry
\* (in-memory map or durable store) has a non-empty participant set; this holds
\* after createSession, joinSession, leaveSession and updateSession.  Stated
\* for Spec.
C15_NoSessionWithoutParticipants ==
  /\ \A s \in DOMAIN activeSessions : activeSessions[s].participants # <<>>
  /\ \A s \in DOMAIN redisSessions : redisSessions[s].participants # <<>>

\* C16: after cleanupInactiveSessions completes, every in-memory session whose
\* lastActivity was older than the inactivity threshold when the sweep started
\* has been torn down: it is absent from the in-memory map and from the
\* durable store, whether or not it still had participants.  Stated for
\* SpecRetention.
C16_SweepTearsDownInactiveSessions ==
  lastOp.op = "cleanupInactiveSessions"
    => \A s \in lastOp.arg : /\ s \notin DOMAIN activeSessions
                             /\ s \notin DOMAIN redisSessions

\* C17: joinSession(S, p) looks the session up in memory first, then in the
\* durable store, and creates a session only when both miss: when S is
\* present in the in-memory map (even if the store returns nothing for S), the
\* result keeps S's existing participants, settings and recording state and
\* only adds p.  Stated for SpecOutage.
C17_JoinKeepsInMemorySession ==
  [][(lastOp'.op = "joinSession" /\ lastOp'.sid \in DOMAIN activeSessions)
       => LET before == activeSessions[lastOp'.sid]
              after == result'.value
          IN /\ Range(after.participants) = Range(before.participants) \cup {lastOp'.arg}
             /\ after.settings = before.settings
             /\ after.isRecording = before.isRecording]_vars

\* no participant id occurs twice in the list
NoDuplicates(participants) ==
  \A i, j \in 1..Len(participants) : participants[i] = participants[j] => i = j

\* C18: adding a participant is idempotent: joinSession(S, p) twice in a row
\* leaves the same participant set as once, and p never appears more than once
\* in any session's participant list.  Stated for SpecOutage.
C18_JoinIsIdempotent ==
  [][/\ \A s \in DOMAIN activeSessions' : NoDuplicates(activeSessions'[s].participants)
     /\ \A s \in DOMAIN redisSessions' : NoDuplicates(redisSessions'[s].participants)
     /\ ( /\ lastOp.op = "joinSession"
          /\ lastOp'.op = "joinSession"
          /\ lastOp'.sid = lastOp.sid
          /\ lastOp'.arg = lastOp.arg )
        => /\ result'.value.participants = result.value.participants
           /\ Lookup(lastOp.sid)'[1].participants = Lookup(lastOp.sid)[1].participants]_vars

\* C18's case: a participant who joined before another one has just joined
\* again, and the list still holds each of them once
C18_Witness ==
  /\ lastOp.op = "joinSession"
  /\ Len(result.value.participants) = 2
  /\ result.value.participants[1] = lastOp.arg
  /\ result.value.participants[2] # lastOp.arg
  /\ Lookup(lastOp.sid) = Some(result.value)

\* C19: after leaveSession(S, p) returns, p is not in the participant set of
\* the session that getSession(S) returns (or S is absent); leaving a session
\* that does not exist, or leaving as a non-member, raises no error and
\* removes no other participant.  Stated for Spec.
C19_LeaverIsGone ==
  [][\A sid \in SessionIds :
       (lastOp'.op = "leaveSession" /\ lastOp'.sid = sid)
       => /\ ~lastOp'.threw
          /\ Lookup(sid)' = None
               \/ lastOp'.arg.participantId \notin Range(Lookup(sid)'[1].participants)
          /\ \A s \in DOMAIN activeSessions :
               \A q \in Range(activeSessions[s].participants) \ {lastOp'.arg.participantId} :
                 /\ s \in DOMAIN activeSessions'
                 /\ q \in Range(activeSessions'[s].participants)]_vars

\* C20: updateSession(S, updates) on a session that exists neither in memory
\* nor in the durable store fails with a not-found error and changes neither
\* the in-memory map nor the store.  Stated for SpecOutage.
C20_UpdateOfUnknownSessionFails ==
  [][( /\ lastOp'.op = "updateSession"
       /\ lastOp'.sid \notin DOMAIN activeSessions
       /\ lastOp'.sid \notin DOMAIN redisSessions )
       => /\ lastOp'.threw
          /\ result' = Returned("error", "Session not found")
          /\ activeSessions' = activeSessions
          /\ redisSessions' = redisSessions]_vars

\* C20's case: an update of a session that is in neither replica has just
\* failed while another session is registered
C20_Witness ==
  /\ lastOp.op = "updateSession"
  /\ lastOp.threw
  /\ lastOp.sid \notin DOMAIN activeSessions
  /\ lastOp.sid \notin DOMAIN redisSessions
  /\ DOMAIN activeSessions # {}
  /\ DOMAIN redisSessions # {}
  /\ connected

-----------------------------------------------------------------------------
(* Session registry contracts: claims C21 - C29 *)

\* C21: createSession(options) gives every caller-supplied option priority
\* over the default: for each of language, voice, autoTranslate, voiceEnabled
\* and subtitleEnabled, when the caller supplies a value (the boolean false
\* included) the created session holds exactly that value.  Stated for Spec.
C21_SuppliedOptionsWin ==
  lastOp.op = "createSession"
    => LET options == lastOp.arg
           session == result.value
       IN /\ options.language # None => session.language = options.language[1]
          /\ options.voice # None => session.voice = options.voice[1]
          /\ options.autoTranslate # None
               => session.settings.autoTranslate = options.autoTranslate[1]
          /\ options.voiceEnabled # None
               => session.settings.voiceEnabled = options.voiceEnabled[1]
          /\ options.subtitleEnabled # None
               => session.settings.subtitleEnabled = options.subtitleEnabled[1]

\* the fields of a session the two replicas must agree on
Mirrored(session) ==
  [participants |-> session.participants,
   language |-> session.language,
   voice |-> session.voice,
   settings |-> session.settings,
   isRecording |-> session.isRecording,
   recordingStartTime |-> session.recordingStartTime,
   recordings |-> session.recordings]

\* C22: write-through coherence: between registry operations, for every
\* session id present in the in-memory map the durable store holds a session
\* under that id with the same participants, language, voice, settings and
\* recording fields; no mutating call leaves the memory copy changed without
\* the store copy being changed too.  Stated for Spec.
C22_MemoryMirrorsStore ==
  \A s \in DOMAIN activeSessions :
    /\ s \in DOMAIN redisSessions
    /\ Mirrored(redisSessions[s]) = Mirrored(activeSessions[s])

\* the calls that change a session and return normally
Mutated ==
  \/ /\ lastOp.op \in {"joinSession", "updateSession", "addToHistory", "startRecording",
                       "stopRecording"}
     /\ ~lastOp.threw
  \/ /\ lastOp.op = "leaveSession"
     /\ lastOp.arg.removed
     /\ ~lastOp.arg.tornDown

\* C23: every mutating operation on a session refreshes lastActivity to the
\* current time: after each successful joinSession, leaveSession (that does
\* not tear the session down), updateSession, addToHistory, startRecording and
\* stopRecording, the session's lastActivity equals the time of that
\* operation.  Stated for SpecCapture.
C23_MutationRefreshesLastActivity ==
  Mutated => /\ Lookup(lastOp.sid) # None
             /\ Lookup(lastOp.sid)[1].lastActivity = clock

\* C24: for every session, lastActivity never decreases along any sequence of
\* operations (the clock does not go back): no operation, updateSession with a
\* caller-supplied lastActivity and a join that reloads the session from the
\* store included, leaves lastActivity lower than it was before, in the
\* in-memory copy, in the store copy, or in what getSession returns.  Stated
\* for SpecActivity.
C24_LastActivityNeverDecreases ==
  [][/\ \A s \in (DOMAIN activeSessions) \cap (DOMAIN activeSessions') :
          activeSessions'[s].lastActivity >= activeSessions[s].lastActivity
     /\ \A s \in (DOMAIN redisSessions) \cap (DOMAIN redisSessions') :
          redisSessions'[s].lastActivity >= redisSessions[s].lastActivity
     /\ \A s \in SessionIds :
          (Lookup(s) # None /\ Lookup(s)' # None)
            => Lookup(s)'[1].lastActivity >= Lookup(s)[1].lastActivity]_vars

\* C24's case: an update that named a lastActivity in the past has just been
\* applied to a session whose lastActivity was later than that
C24_Witness ==
  /\ lastOp.op = "updateSession"
  /\ ~lastOp.threw
  /\ lastOp.arg.lastActivity # None
  /\ lastOp.arg.lastActivity[1] < clock
  /\ result.value.createdAt < clock
  /\ result.value.lastActivity = clock

\* C25: when the durable store is unreachable, addToHistory and
\* getSessionHistory do not fail the caller and both return an empty result;
\* in particular addToHistory does not return an entry that was not stored.
\* Stated for Spec, for the sessions that exist in memory or in the store.
C25_HistoryDegradesToEmpty ==
  ~connected
    => /\ lastOp.op = "getSessionHistory"
            => ~lastOp.threw /\ result = Returned("history", <<>>)
       /\ ( /\ lastOp.op = "addToHistory"
            /\ lastOp.sid \in (DOMAIN activeSessions) \cup (DOMAIN redisSessions) )
            => ~lastOp.threw /\ result.kind # "entry"

\* the calls of the registry and of the recording capture that must persist
Persisting == {"createSession", "joinSession", "updateSession", "startRecording",
               "stopRecording"}

\* C26: when the durable store is unavailable while a Session Registry or
\* Recording Capture operation must persist (createSession, joinSession,
\* updateSession, startRecording, stopRecording), the operation reports an
\* error to its caller instead of returning success; in particular
\* stopRecording never returns a Recording that getRecording cannot retrieve.
\* Stated for SpecOutage.
C26_UnavailableStoreIsReported ==
  /\ (~connected /\ lastOp.op \in Persisting) => lastOp.threw
  /\ (lastOp.op = "stopRecording" /\ ~lastOp.threw)
       => CacheGetRecording(result.value.id) # None

\* C27: joinSession called with an absent session id fails with an
\* InvalidArgument error and creates or modifies no session in memory or in
\* the durable store.  Stated for SpecAdmission.
C27_JoinWithoutIdFails ==
  [][(lastOp'.op = "joinSession" /\ lastOp'.sid = AbsentId)
       => /\ lastOp'.threw
          /\ activeSessions' = activeSessions
          /\ redisSessions' = redisSessions]_vars

-----------------------------------------------------------------------------
(* Live service contracts: claim C30 *)

\* the 'response' events emitted for response cycle c
ResponsesOf(c) == {i \in 1..Len(responses) : responses[i].call = c}

\* C30: each response cycle emits at most one 'response' event, exactly one
\* when its getResponse call succeeded and the cycle was neither interrupted
\* nor its session closed meanwhile; the event carries the id of the session
\* the cycle was started for.  Stated for SpecLive.
C30_OneResponsePerCycle ==
  /\ \A c \in 1..Len(calls) :
       /\ Cardinality(ResponsesOf(c)) <= 1
       /\ ( /\ calls[c].outcome \in {"emitted", "discarded"}
            /\ ~calls[c].interrupted
            /\ ~calls[c].closed )
          => Cardinality(ResponsesOf(c)) = 1
       /\ calls[c].outcome = "pending" => ResponsesOf(c) = {}
  /\ \A i \in 1..Len(responses) :
       /\ responses[i].call \in 1..Len(calls)
       /\ responses[i].sessionId = calls[responses[i].call].sid
  /\ \A e \in Range(emitted) :
       e.type = "response"
       => /\ lastOp.op = "getResponse.return"
          /\ e.sessionId = calls[lastOp.call].sid
          /\ emitted = <<e>>

\* C30's case: the second cycle of a session has just returned undisturbed
\* and its one event went out
C30_Witness ==
  /\ lastOp.op = "getResponse.return"
  /\ lastOp.call = 2
  /\ calls[1].sid = calls[2].sid
  /\ calls[2].outcome = "emitted"
  /\ ~calls[2].interrupted
  /\ ~calls[2].closed
  /\ emitted = <<Event("response", calls[2].sid)>>
  /\ Cardinality(ResponsesOf(2)) = 1

-----------------------------------------------------------------------------
(* Session registry lookups and deletion: claims C32 - C33, stated for SpecLookup *)

\* C32: getSession(S) returns the in-memory session when one exists,
\* otherwise the session the durable store answers with, which it then caches
\* in memory so that the next getSession(S) is served from memory, otherwise
\* absent; getSession never writes to the durable store.
C32_GetSessionIsMemoryFirst ==
  [][\A sid \in SessionIds :
       (lastOp'.op = "getSession" /\ lastOp'.sid = sid)
       => /\ ~lastOp'.threw
          /\ redisSessions' = redisSessions
          /\ redisHistory' = redisHistory
          /\ redisRecordings' = redisRecordings
          /\ sid \in DOMAIN activeSessions
               => /\ result' = Returned("session", activeSessions[sid])
                  /\ activeSessions' = activeSessions
          /\ (sid \notin DOMAIN activeSessions /\ connected /\ sid \in DOMAIN redisSessions)
               => /\ result' = Returned("session", redisSessions[sid])
                  /\ sid \in DOMAIN activeSessions'
                  /\ activeSessions'[sid] = redisSessions[sid]
                  /\ \A other \in DOMAIN activeSessions :
                       /\ other \in DOMAIN activeSessions'
                       /\ activeSessions'[other] = activeSessions[other]
          /\ (sid \notin DOMAIN activeSessions /\ ~(connected /\ sid \in DOMAIN redisSessions))
               => /\ result'.kind \in {"null", "undefined"}
                  /\ activeSessions' = activeSessions]_vars

\* C32's case: getSession has just answered from the store, for a session that
\* memory had forgotten, and memory holds it again
C32_Witness ==
  /\ lastOp.op = "getSession"
  /\ result.kind = "session"
  /\ connected
  /\ lastOp.sid \in DOMAIN redisSessions
  /\ lastOp.sid \in DOMAIN activeSessions
  /\ result.value = redisSessions[lastOp.sid]
  /\ activeSessions[lastOp.sid] = redisSessions[lastOp.sid]
  /\ lastOp.sid \notin DOMAIN recordingSessions
  /\ redisSessions[lastOp.sid].isRecording

\* C33: after deleteSession(S) returned true the session is gone: neither
\* memory nor the store holds it (so getSession(S) returns absent), the
\* history of S is empty and S has no recording accumulator; deleteSession on
\* a session that does not exist returns false and changes no state.
C33_DeletedSessionIsGone ==
  lastOp.op = "deleteSession"
  => IF result = Returned("boolean", TRUE)
       THEN /\ lastOp.sid \notin DOMAIN activeSessions
            /\ lastOp.sid \notin DOMAIN redisSessions
            /\ StoredHistory(redisHistory, lastOp.sid) = <<>>
            /\ lastOp.sid \notin DOMAIN recordingSessions
       ELSE result = Returned("boolean", FALSE)

-----------------------------------------------------------------------------
(* Live service state: claims C34 - C36, stated for SpecLive *)

\* C34: interrupt(S) on a session whose LiveState has responding = true sets
\* responding to false in the same step, without waiting for the outstanding
\* getResponse call; interrupt on a session without LiveState changes nothing
\* and emits no event.
C34_InterruptIsImmediate ==
  [][\A sid \in LiveIds :
       (lastOp'.op = "interrupt" /\ lastOp'.sid = sid)
       => /\ (sid \in DOMAIN sessions /\ sessions[sid].responding)
               => /\ sid \in DOMAIN sessions'
                  /\ ~sessions'[sid].responding
                  /\ Outstanding(sid)' = Outstanding(sid)
                  /\ emitted' = <<Event("interrupted", sid)>>
          /\ sid \notin DOMAIN sessions
               => /\ sessions' = sessions
                  /\ responses' = responses
                  /\ Outstanding(sid)' = Outstanding(sid)
                  /\ emitted' = <<>>]_vars

\* C34's case: an interrupt has just made a session idle while the call of its
\* cycle is still outstanding
C34_Witness ==
  /\ lastOp.op = "interrupt"
  /\ lastOp.sid \in DOMAIN sessions
  /\ ~sessions[lastOp.sid].responding
  /\ Outstanding(lastOp.sid) # {}
  /\ emitted = <<Event("interrupted", lastOp.sid)>>

\* C35: in every reachable state a LiveState has responding = true only while
\* a getResponse call started for that session is still outstanding; once
\* every started call has returned or failed, every open session is idle.
C35_RespondingOnlyWhileOutstanding ==
  /\ \A sid \in DOMAIN sessions :
       sessions[sid].responding => Outstanding(sid) # {}
  /\ (\A c \in 1..Len(calls) : calls[c].outcome # "pending")
       => \A sid \in DOMAIN sessions : ~sessions[sid].responding

\* C35's case: every cycle that can start has started and ended, one of them
\* by a failure, and the session it ran for is open and idle
C35_Witness ==
  /\ Len(calls) = MaxCalls
  /\ \A c \in 1..Len(calls) : calls[c].outcome # "pending"
  /\ \E c \in 1..Len(calls) :
       /\ calls[c].outcome = "failed"
       /\ calls[c].sid \in DOMAIN sessions
       /\ ~sessions[calls[c].sid].responding
  /\ lastOp.op \in {"getResponse.return", "getResponse.throw"}

\* the response cycles started for session sid
CyclesOf(sid) == {c \in 1..Len(calls) : calls[c].sid = sid}

\* the most recently started response cycle of session sid
LatestCycle(sid) == CHOOSE c \in CyclesOf(sid) : \A d \in CyclesOf(sid) : d <= c

\* C36: while the most recently started response cycle of an open session is
\* outstanding and has not been interrupted, the session's responding flag is
\* true: neither the completion of an earlier cycle nor an openSession for the
\* same id clears it.
C36_FlagHeldForLatestCycle ==
  \A sid \in DOMAIN sessions :
    ( /\ CyclesOf(sid) # {}
      /\ calls[LatestCycle(sid)].outcome = "pending"
      /\ ~calls[LatestCycle(sid)].interrupted
      /\ ~calls[LatestCycle(sid)].closed )
    => sessions[sid].responding

-----------------------------------------------------------------------------
(* Recording bookkeeping: claim C40, stated for SpecRetention *)

\* getRecordingSessionsCount()
GetRecordingSessionsCount == Cardinality(DOMAIN recordingSessions)

\* the in-memory sessions whose isRecording flag is set
FlaggedRecording == {sid \in DOMAIN activeSessions : activeSessions[sid].isRecording}

\* C40: between recording operations a session has an in-memory recording
\* accumulator exactly when its isRecording flag is true, after any
\* interleaving of startRecording, stopRecording, joinSession, leaveSession
\* and deleteSession; so getRecordingSessionsCount equals the number of
\* sessions with isRecording = true.
C40_AccumulatorIffRecording ==
  /\ DOMAIN recordingSessions = FlaggedRecording
  /\ GetRecordingSessionsCount = Cardinality(FlaggedRecording)

-----------------------------------------------------------------------------
(* Session identity: claim C37, stated for SpecAdmission *)

\* C37: joinSession(S, p) always returns a session whose id is S, and every
\* key of the in-memory session map maps to a session whose id equals that
\* key, also when S was unknown and the session is created implicitly.
C37_SessionIdIsItsKey ==
  /\ \A k \in DOMAIN activeSessions : activeSessions[k].id = k
  /\ (lastOp.op = "joinSession" /\ ~lastOp.threw)
       => /\ result.kind = "session"
          /\ result.value.id = lastOp.sid

-----------------------------------------------------------------------------
(* Socket transport: claims C31 and C39, stated for SpecTransport *)

\* the 'response' events emitted for session sid among the first n
ResponsesFor(sid, n) == {j \in 1..n : responses[j].sessionId = sid}

\* C31: every response cycle that completes and emits a 'response' event
\* causes one history entry for that interaction to be appended to the
\* session's history, in cycle-completion order: with the i-th event of a
\* session emitted, the store has accepted at least i entries for it.
C31_ResponseIsInHistory ==
  \A i \in 1..Len(responses) :
    Len(StoredHistory(appended, responses[i].sessionId))
      >= Cardinality(ResponsesFor(responses[i].sessionId, i))

\* C39: as long as a socket that joined session S through the transport is
\* connected, S has a LiveState: the disconnect of another participant does
\* not remove it.
C39_LiveStateWhileJoined ==
  \A socket \in Sockets :
    (sockets[socket].connected /\ sockets[socket].room # None)
    => sockets[socket].room[1] \in DOMAIN sessions

-----------------------------------------------------------------------------
(* Interleaved joins and leaves: claim C38, stated for SpecInterleaved *)

\* no joinSession or leaveSession call is between its start and its return
Settled == \A p \in Participants : inFlight[p].pc \in {"idle", "returned"}

\* the participants whose latest call is a joinSession of sessionId that returned
JoinedLast(sessionId) ==
  {p \in Participants :
     /\ inFlight[p].op = "joinSession"
     /\ inFlight[p].pc = "returned"
     /\ inFlight[p].sid = sessionId}

\* C38: when joinSession calls for the same session by distinct participants
\* interleave at their await points, every one of them is in the session's
\* participant set, in memory and in the store, once the calls have
\* returned; the same holds for a join interleaved with a leave of another
\* participant.
C38_InterleavedJoinsKeepEveryone ==
  Settled
  => \A sid \in SessionIds : \A p \in JoinedLast(sid) :
       /\ sid \in DOMAIN redisSessions
       /\ p \in Range(redisSessions[sid].participants)
       /\ sid \in DOMAIN activeSessions
       /\ p \in Range(activeSessions[sid].participants)

====
